---- MODULE Spec2Model ----
(***************************************************************************)
(* Model of verify_toc() in verify_toc.py: a linear Playwright script that *)
(* launches a headless browser, connects to the local dev server with a    *)
(* bounded retry loop, toggles the editor between Split and Preview view   *)
(* and takes three screenshots.  The driver and the application under test *)
(* are the environment: their answers (navigation outcome, presence of the *)
(* buttons, visibility of the TOC, writability of the output directory)    *)
(* are chosen nondeterministically.                                        *)
(***************************************************************************)
EXTENDS Naturals, Sequences, FiniteSets

VARIABLES
  pc,          \* position of the script
  playwright,  \* the sync_playwright() scope: "none", "started", "stopped"
  browser,     \* the browser session: "none", "open", "closed", "released"
  i,           \* number of iterations of the retry loop entered so far
  failed,      \* navigation attempts that raised
  pauses,      \* time.sleep(1) calls taken inside the retry loop
  connected,   \* TRUE once a page.goto returned normally
  elapsed,     \* seconds spent inside the retry loop
  view,        \* view mode of the application ("Split" / "Preview")
  queried,     \* TRUE once toc_header.is_visible() has returned
  visible,     \* the value it returned
  files,       \* screenshots written, in order
  stdout,      \* lines printed, in order
  trace,       \* every driver call / sleep / print executed, in order
  fault,       \* kind of the fault propagating out of the block, or "none"
  faultAt,     \* the statement that raised it, or "none"
  env          \* the environment the run happens in (fixed per run)

vars == <<pc, playwright, browser, i, failed, pauses, connected, elapsed,
          view, queried, visible, files, stdout, trace, fault, faultAt, env>>

----------------------------------------------------------------------------
(* Program constants *)

MaxRetries == 10
GotoTimeoutSec == 3
SleepSec == 1

Url == "http://localhost:5173"
BtnPreview == "Xem trước"
BtnSplit == "Song song"
TocText == "Mục lục"
InitialSplitPath == "/home/jules/verification/initial_split.png"
PreviewWithTocPath == "/home/jules/verification/preview_with_toc.png"
BackToSplitPath == "/home/jules/verification/back_to_split.png"
MsgVisible == "TOC is visible in Preview mode."
MsgNotVisible == "TOC is NOT visible in Preview mode."

----------------------------------------------------------------------------
(* Environment: driver faults and the application under test *)

\* Faults page.goto can raise; KeyboardInterrupt is a BaseException that is
\* not an Exception.
GotoFaults == {"TimeoutError", "ConnectionRefused", "KeyboardInterrupt"}

\* Without timeout=3000 the driver's default of 30 seconds applies.
FaultDurationDefault(kind) == IF kind = "TimeoutError" THEN 30 ELSE 0

\* Seconds a failing page.goto(timeout=3000) takes before it raises.
FaultDuration(kind) == IF kind = "TimeoutError" THEN GotoTimeoutSec ELSE 0

TocStates == {"previewOnly", "always", "never", "ambiguous"}

Envs == [previewBtn : BOOLEAN, splitBtn : BOOLEAN, toggles : BOOLEAN,
         dirWritable : BOOLEAN, tocState : TocStates]

\* The application: the two buttons switch the view when the toggles work.
AppClick(label, v, toggles) ==
  IF ~toggles THEN v
  ELSE IF label = BtnPreview THEN "Preview"
  ELSE IF label = BtnSplit THEN "Split"
  ELSE v

\* The application: is an element with text "Mục lục" shown in view v.
TocShown(tocState, v) ==
  CASE tocState = "previewOnly" -> v = "Preview"
    [] tocState = "always"      -> TRUE
    [] tocState = "never"       -> FALSE
    [] tocState = "ambiguous"   -> TRUE

\* The claim's premise of a working application.
Working(e) ==
  e.previewBtn /\ e.splitBtn /\ e.toggles /\ e.tocState = "previewOnly"

\* What the page shows: about:blank until a navigation succeeded.
PageView == IF connected THEN view ELSE "blank"
PageToc == connected /\ TocShown(env.tocState, view)
ButtonOnPage(label) ==
  connected /\ (label = BtnPreview => env.previewBtn)
            /\ (label = BtnSplit => env.splitBtn)

----------------------------------------------------------------------------
(* Helpers of the script *)

Entry(op, arg, ok) == [op |-> op, arg |-> arg, ok |-> ok, session |-> browser]

\* Leaving the block with a fault: nothing else of the block runs.
Raise(kind, at) ==
  /\ fault' = kind
  /\ faultAt' = at
  /\ pc' = "unwind"

NoFault == UNCHANGED <<fault, faultAt>>

\* A loop without the "break": a successful attempt goes on to the next one.
AfterSuccessNoBreak(idx) == IF idx + 1 < MaxRetries THEN "connect" ELSE "shot1"

\* "break" after a page.goto that returned: the loop is left at once.
AfterSuccess(idx) == "shot1"

\* "except Exception:" would let a BaseException such as KeyboardInterrupt out.
CatchesExceptionOnly(kind) == kind # "KeyboardInterrupt"

\* The bare "except:" of the retry loop catches every fault.
Catches(kind) == TRUE

\* The two messages the wrong way round.
PrintLineSwapped(v) == IF v THEN MsgNotVisible ELSE MsgVisible

\* The line printed for a visibility result.
PrintLine(v) == IF v THEN MsgVisible ELSE MsgNotVisible

\* Without the scope, a fault leaves the browser as it is.
LeakOnExit(b) == b

\* __exit__ of the sync_playwright() scope stops the driver, which takes a
\* still-open browser down with it.
ReleaseOnExit(b) == IF b = "open" THEN "released" ELSE b

----------------------------------------------------------------------------
Init ==
  /\ pc = "start"
  /\ playwright = "none"
  /\ browser = "none"
  /\ i = 0
  /\ failed = 0
  /\ pauses = 0
  /\ connected = FALSE
  /\ elapsed = 0
  /\ view = "Split"
  /\ queried = FALSE
  /\ visible = FALSE
  /\ files = <<>>
  /\ stdout = <<>>
  /\ trace = <<>>
  /\ fault = "none"
  /\ faultAt = "none"
  /\ env \in Envs

\* with sync_playwright() as p:
EnterWith ==
  /\ pc = "start"
  /\ playwright' = "started"
  /\ pc' = "launch"
  /\ UNCHANGED <<browser, i, failed, pauses, connected, elapsed, view,
                 queried, visible, files, stdout, trace, fault, faultAt, env>>

\* browser = p.chromium.launch(...); context = ...; page = ...
Launch ==
  /\ pc = "launch"
  /\ \E ok \in BOOLEAN :
       IF ok
       THEN /\ browser' = "open"
            /\ pc' = "connect"
            /\ NoFault
       ELSE /\ browser' = browser
            /\ Raise("Error", "launch")
  /\ trace' = Append(trace, [op |-> "launch", arg |-> "", ok |-> browser' = "open",
                             session |-> browser'])
  /\ UNCHANGED <<playwright, i, failed, pauses, connected, elapsed, view,
                 queried, visible, files, stdout, env>>

\* One iteration of "for i in range(max_retries)": try page.goto, break on
\* success, sleep one second on any fault.
GotoAttempt ==
  /\ pc = "connect"
  /\ i < MaxRetries
  /\ i' = i + 1
  /\ \E ok \in BOOLEAN, kind \in GotoFaults, d \in 0..GotoTimeoutSec :
       IF ok
       THEN /\ connected' = TRUE
            /\ elapsed' = elapsed + d
            /\ trace' = Append(trace, Entry("goto", Url, TRUE))
            /\ pc' = AfterSuccess(i)
            /\ UNCHANGED <<failed, pauses>>
            /\ NoFault
       ELSE IF Catches(kind)
       THEN /\ failed' = failed + 1
            /\ pauses' = pauses + 1
            /\ elapsed' = elapsed + FaultDuration(kind) + SleepSec
            /\ trace' = trace \o <<Entry("goto", Url, FALSE),
                                   Entry("sleep", "retry", TRUE)>>
            /\ pc' = IF i + 1 < MaxRetries THEN "connect" ELSE "shot1"
            /\ UNCHANGED connected
            /\ NoFault
       ELSE /\ failed' = failed + 1
            /\ elapsed' = elapsed + FaultDuration(kind)
            /\ trace' = Append(trace, Entry("goto", Url, FALSE))
            /\ Raise(kind, "goto")
            /\ UNCHANGED <<pauses, connected>>
  /\ UNCHANGED <<playwright, browser, view, queried, visible, files, stdout,
                 env>>

\* page.screenshot(path=...): writes the file, or raises when the directory
\* cannot be written.
Screenshot(at, path, next) ==
  /\ pc = at
  /\ IF env.dirWritable
     THEN /\ files' = Append(files, [path |-> path, view |-> PageView,
                                     toc |-> PageToc])
          /\ pc' = next
          /\ NoFault
     ELSE /\ files' = files
          /\ Raise("Error", at)
  /\ trace' = Append(trace, Entry("screenshot", path, env.dirWritable))
  /\ UNCHANGED <<playwright, browser, i, failed, pauses, connected, elapsed,
                 view, queried, visible, stdout, env>>

\* A click guarded by a presence test: a missing button is skipped silently.
ClickIfPresent(at, label, next) ==
  /\ pc = at
  /\ view' = IF ButtonOnPage(label) THEN AppClick(label, view, env.toggles)
             ELSE view
  /\ pc' = next
  /\ trace' = Append(trace, Entry("click", label, ButtonOnPage(label)))
  /\ UNCHANGED <<playwright, browser, i, failed, pauses, connected, elapsed,
                 queried, visible, files, stdout, fault, faultAt, env>>

\* page.get_by_role("button", name=label).click(): raises when no such
\* button is on the page.
Click(at, label, next) ==
  /\ pc = at
  /\ IF ButtonOnPage(label)
     THEN /\ view' = AppClick(label, view, env.toggles)
          /\ pc' = next
          /\ NoFault
     ELSE /\ view' = view
          /\ Raise("TimeoutError", at)
  /\ trace' = Append(trace, Entry("click", label, ButtonOnPage(label)))
  /\ UNCHANGED <<playwright, browser, i, failed, pauses, connected, elapsed,
                 queried, visible, files, stdout, env>>

\* time.sleep(1) after a click
Sleep(at, next) ==
  /\ pc = at
  /\ pc' = next
  /\ trace' = Append(trace, Entry("sleep", at, TRUE))
  /\ UNCHANGED <<playwright, browser, i, failed, pauses, connected, elapsed,
                 view, queried, visible, files, stdout, fault, faultAt, env>>

ScreenshotInitial == Screenshot("shot1", InitialSplitPath, "click1")
ClickPreview == Click("click1", BtnPreview, "sleep1")
SleepAfterPreview == Sleep("sleep1", "query")

\* toc_header = page.get_by_text("Mục lục"); toc_header.is_visible()
QueryToc ==
  /\ pc = "query"
  /\ IF connected /\ env.tocState = "ambiguous"
     THEN /\ Raise("StrictModeViolation", "query")
          /\ UNCHANGED <<queried, visible>>
          /\ trace' = Append(trace, Entry("is_visible", TocText, FALSE))
     ELSE /\ queried' = TRUE
          /\ visible' = PageToc
          /\ pc' = "print"
          /\ NoFault
          /\ trace' = Append(trace, Entry("is_visible", TocText, TRUE))
  /\ UNCHANGED <<playwright, browser, i, failed, pauses, connected, elapsed,
                 view, files, stdout, env>>

\* The "else" branch missing: nothing is printed when the TOC is not visible.
PrintOnlyIfVisible ==
  /\ pc = "print"
  /\ stdout' = IF visible THEN Append(stdout, MsgVisible) ELSE stdout
  /\ trace' = IF visible THEN Append(trace, Entry("print", MsgVisible, TRUE))
              ELSE trace
  /\ pc' = "shot2"
  /\ UNCHANGED <<playwright, browser, i, failed, pauses, connected, elapsed,
                 view, queried, visible, files, fault, faultAt, env>>

\* An assertion in place of the "else" print: a hidden TOC fails the run.
PrintOrFail ==
  /\ pc = "print"
  /\ IF visible
     THEN /\ stdout' = Append(stdout, MsgVisible)
          /\ pc' = "shot2"
          /\ NoFault
     ELSE /\ stdout' = Append(stdout, MsgNotVisible)
          /\ Raise("AssertionError", "print")
  /\ trace' = Append(trace, Entry("print", PrintLine(visible), TRUE))
  /\ UNCHANGED <<playwright, browser, i, failed, pauses, connected, elapsed,
                 view, queried, visible, files, env>>

\* if ...: print(...) else: print(...)
PrintResult ==
  /\ pc = "print"
  /\ stdout' = Append(stdout, PrintLine(visible))
  /\ trace' = Append(trace, Entry("print", PrintLine(visible), TRUE))
  /\ pc' = "shot2"
  /\ UNCHANGED <<playwright, browser, i, failed, pauses, connected, elapsed,
                 view, queried, visible, files, fault, faultAt, env>>

ScreenshotPreview == Screenshot("shot2", PreviewWithTocPath, "click2")

\* The second click aimed at the Preview button again.
ClickPreviewAgain == Click("click2", BtnPreview, "sleep2")

ClickSplit == Click("click2", BtnSplit, "sleep2")
SleepAfterSplit == Sleep("sleep2", "shot3")

\* browser.close() moved in front of the last screenshot.
ScreenshotBackAfterClose ==
  /\ pc = "shot3"
  /\ browser' = "closed"
  /\ trace' = trace \o <<Entry("close", "", TRUE),
                          [op |-> "screenshot", arg |-> BackToSplitPath,
                           ok |-> FALSE, session |-> "closed"]>>
  /\ Raise("TargetClosedError", "shot3")
  /\ UNCHANGED <<playwright, i, failed, pauses, connected, elapsed, view,
                 queried, visible, files, stdout, env>>

ScreenshotBack == Screenshot("shot3", BackToSplitPath, "close")

\* browser.close()
CloseBrowser ==
  /\ pc = "close"
  /\ browser' = "closed"
  /\ trace' = Append(trace, Entry("close", "", TRUE))
  /\ pc' = "exit"
  /\ UNCHANGED <<playwright, i, failed, pauses, connected, elapsed, view,
                 queried, visible, files, stdout, fault, faultAt, env>>

\* Leaving the "with" block, normally or with a fault propagating.
ExitWith ==
  /\ pc \in {"exit", "unwind"}
  /\ playwright' = "stopped"
  /\ browser' = ReleaseOnExit(browser)
  /\ pc' = IF fault = "none" THEN "done" ELSE "faulted"
  /\ UNCHANGED <<i, failed, pauses, connected, elapsed, view, queried,
                 visible, files, stdout, trace, fault, faultAt, env>>

Next ==
  \/ EnterWith
  \/ Launch
  \/ GotoAttempt
  \/ ScreenshotInitial
  \/ ClickPreview
  \/ SleepAfterPreview
  \/ QueryToc
  \/ PrintResult
  \/ ScreenshotPreview
  \/ ClickSplit
  \/ SleepAfterSplit
  \/ ScreenshotBack
  \/ CloseBrowser
  \/ ExitWith

Spec == Init /\ [][Next]_vars

----------------------------------------------------------------------------
(* Properties *)

Terminal == pc \in {"done", "faulted"}
GotoIdx == {k \in 1..Len(trace) : trace[k].op = "goto"}
RetrySleepIdx ==
  {k \in 1..Len(trace) : trace[k].op = "sleep" /\ trace[k].arg = "retry"}
Executed(op, arg) ==
  \E k \in 1..Len(trace) : trace[k].op = op /\ trace[k].arg = arg

\* C1: navigation is attempted at most 10 times; no attempt follows a
\* successful one; a pause follows every failed attempt and only failed
\* attempts, so the pauses are as many as the failed attempts.
C1_ConnectLoop ==
  /\ Cardinality(GotoIdx) <= 10
  /\ \A k \in GotoIdx : trace[k].arg = "http://localhost:5173"
  /\ \A k \in GotoIdx : trace[k].ok => \A m \in GotoIdx : m <= k
  /\ \A k \in GotoIdx :
       IF trace[k].ok
       THEN k = Len(trace) \/ trace[k + 1].op # "sleep"
       ELSE k < Len(trace) /\ (k + 1) \in RetrySleepIdx
  /\ \A k \in RetrySleepIdx :
       k > 1 /\ (k - 1) \in GotoIdx /\ ~trace[k - 1].ok
  /\ Cardinality(RetrySleepIdx) = Cardinality({k \in GotoIdx : ~trace[k].ok})
  /\ pauses = failed

C1_Witness ==
  /\ connected
  /\ failed = 2
  /\ pauses = 2
  /\ Cardinality(GotoIdx) = 3
  /\ pc = "shot1"

\* C2: when all 10 attempts fail, whatever the faults, none leaves the retry
\* loop: the run stands at the initial screenshot, as after a success.
C2_ExhaustionSwallowed ==
  /\ faultAt # "goto"
  /\ failed = 10 =>
       /\ pc # "connect"
       /\ pc = "shot1" \/ Executed("screenshot", InitialSplitPath)

C2_Witness ==
  /\ failed = 10
  /\ ~connected
  /\ Executed("screenshot", InitialSplitPath)
  /\ \A k \in GotoIdx : ~trace[k].ok

\* C3: no terminal state of the run, normal or faulted, leaves the browser
\* session open or the driver scope running.
C3_SessionReleased ==
  Terminal => browser # "open" /\ playwright = "stopped"

C3_Witness ==
  /\ pc = "faulted"
  /\ faultAt \in {"shot1", "click1", "query", "shot2", "click2", "shot3"}
  /\ browser = "released"

\* C4: the visibility decision prints exactly one line, the "visible"
\* message for a true result and the "NOT visible" message for a false one,
\* and never raises.
C4_PrintedLine ==
  /\ faultAt # "print"
  /\ pc = "print" => queried /\ stdout = <<>>
  /\ (queried /\ pc # "print") =>
       stdout = << IF visible THEN "TOC is visible in Preview mode."
                   ELSE "TOC is NOT visible in Preview mode." >>
  /\ ~queried => stdout = <<>>
  /\ Cardinality({k \in 1..Len(trace) : trace[k].op = "print"}) = Len(stdout)

C4_Witness ==
  /\ queried
  /\ ~visible
  /\ stdout = <<"TOC is NOT visible in Preview mode.">>

IsShotOrClick(e) == e.op \in {"screenshot", "click"}

\* C5: with a reachable, working application a full run writes exactly the
\* three screenshots, once each and in order: Split without TOC before the
\* click on "Xem trước", Preview with TOC between the two clicks, Split
\* without TOC after the click on "Song song".
C5_ScreenshotOrder ==
  (pc = "done" /\ connected /\ Working(env)) =>
    /\ files = << [path |-> "/home/jules/verification/initial_split.png",
                   view |-> "Split", toc |-> FALSE],
                  [path |-> "/home/jules/verification/preview_with_toc.png",
                   view |-> "Preview", toc |-> TRUE],
                  [path |-> "/home/jules/verification/back_to_split.png",
                   view |-> "Split", toc |-> FALSE] >>
    /\ SelectSeq(trace, IsShotOrClick) =
         << [op |-> "screenshot", arg |-> InitialSplitPath, ok |-> TRUE,
             session |-> "open"],
            [op |-> "click", arg |-> "Xem trước", ok |-> TRUE,
             session |-> "open"],
            [op |-> "screenshot", arg |-> PreviewWithTocPath, ok |-> TRUE,
             session |-> "open"],
            [op |-> "click", arg |-> "Song song", ok |-> TRUE,
             session |-> "open"],
            [op |-> "screenshot", arg |-> BackToSplitPath, ok |-> TRUE,
             session |-> "open"] >>

C5_Witness ==
  /\ pc = "done"
  /\ connected
  /\ Working(env)
  /\ Len(files) = 3
  /\ files[2].toc

\* C6: a click on a button that is not on the page ends the run with a
\* fault; a run in which either button is missing never completes normally.
C6_MissingButtonFaults ==
  /\ \A label \in {BtnPreview, BtnSplit} :
       (Executed("click", label) /\ ~ButtonOnPage(label)) =>
         /\ fault # "none"
         /\ pc \in {"unwind", "faulted"}
  /\ pc = "done" => ButtonOnPage(BtnPreview) /\ ButtonOnPage(BtnSplit)

C6_Witness ==
  /\ pc = "faulted"
  /\ faultAt = "click2"
  /\ connected
  /\ ~env.splitBtn
  /\ Len(files) = 2

\* C7 as stated: a run that completes normally has written three image
\* files and printed two lines.
C7_Original ==
  pc = "done" => Len(files) = 3 /\ Len(stdout) = 2

\* C7 amended: a run that completes normally has written three image files,
\* at three different paths, and printed exactly one line.
C7_Amended ==
  pc = "done" =>
    /\ Len(files) = 3
    /\ Cardinality({files[k].path : k \in 1..Len(files)}) = 3
    /\ Len(stdout) = 1

C7_Witness ==
  /\ pc = "done"
  /\ Len(files) = 3
  /\ Len(stdout) = 1

\* What follows the decision, as a function of the environment only.
ExpectedTail(e) ==
  LET shot2 == [op |-> "screenshot", arg |-> PreviewWithTocPath, ok |-> TRUE,
                session |-> "open"]
  IN  IF e.splitBtn
      THEN << shot2,
              [op |-> "click", arg |-> BtnSplit, ok |-> TRUE,
               session |-> "open"],
              [op |-> "sleep", arg |-> "sleep2", ok |-> TRUE,
               session |-> "open"],
              [op |-> "screenshot", arg |-> BackToSplitPath, ok |-> TRUE,
               session |-> "open"],
              [op |-> "close", arg |-> "", ok |-> TRUE, session |-> "open"] >>
      ELSE << shot2,
              [op |-> "click", arg |-> BtnSplit, ok |-> FALSE,
               session |-> "open"] >>

PrintIdx == CHOOSE k \in 1..Len(trace) : trace[k].op = "print"
TailAfterDecision == SubSeq(trace, PrintIdx + 1, Len(trace))

\* C8: what the run does after the visibility decision, and the status it
\* ends in, are fixed by the environment alone and are the same whether the
\* query returned true or false; no fault is ever raised by the decision.
C8_DecisionIndependent ==
  /\ faultAt # "print"
  /\ (queried /\ pc # "print") =>
       /\ stdout # <<>>
       /\ Len(TailAfterDecision) <= Len(ExpectedTail(env))
       /\ TailAfterDecision =
            SubSeq(ExpectedTail(env), 1, Len(TailAfterDecision))
       /\ Terminal =>
            /\ TailAfterDecision = ExpectedTail(env)
            /\ pc = IF env.splitBtn THEN "done" ELSE "faulted"

C8_Witness ==
  /\ pc = "done"
  /\ queried
  /\ ~visible
  /\ stdout = <<MsgNotVisible>>
  /\ fault = "none"

\* C9 as stated: the retry loop spends at most 13 seconds.
C9_Original == elapsed <= 13

\* C9 amended: the retry loop spends at most 40 seconds, 10 attempts of a
\* 3-second timeout and a 1-second pause each.
C9_Amended == elapsed <= 40

C9_Witness ==
  /\ elapsed = 40
  /\ failed = 10
  /\ pauses = 10
  /\ pc = "shot1"

PageOps == {"goto", "screenshot", "click", "is_visible"}

\* C10: every page operation is executed while the browser session is open,
\* none before the launch and none after the close or the release.
C10_PageOpsWhileOpen ==
  /\ \A k \in 1..Len(trace) :
       trace[k].op \in PageOps => trace[k].session = "open"
  /\ pc \in {"connect", "shot1", "click1", "sleep1", "query", "print",
             "shot2", "click2", "sleep2", "shot3", "close"} =>
       browser = "open"
  /\ browser # "open" =>
       pc \in {"start", "launch", "exit", "unwind", "done", "faulted"}

C10_Witness ==
  /\ pc = "done"
  /\ browser = "closed"
  /\ Cardinality({k \in 1..Len(trace) : trace[k].op \in PageOps}) >= 7

====
